---- MODULE Spec2Model ----
(***************************************************************************)
(* State-machine model of the USBasp parallel / high-voltage-serial        *)
(* programmer firmware: the programming engine of isp.c (transport,        *)
(* device detection, flash / EEPROM access) and the host command state     *)
(* machine (usbFunctionSetup / usbFunctionRead / usbFunctionWrite).        *)
(***************************************************************************)
EXTENDS Integers, Sequences, FiniteSets, TLC

(***************************************************************************)
(* Bounds of the model                                                     *)
(***************************************************************************)
\* largest transfer length (bytes[6..7] of a header) the host sends
MaxBytes == 8
\* largest small page size (byte[4] of a write-flash header) the host sends
MaxPage == 5
\* how many streaming commands the host of SpecWrite sends in a session
MaxCmds == 1
\* how far the cursor may run past a start address before data phases stop
MaxSpan == 10
\* how many blocks (write-flash commands) a multi-block transfer has at most
MaxBlocks == 3
\* largest length of one block of a multi-block transfer
MaxBlockLen == 3

(***************************************************************************)
(* Program constants                                                       *)
(***************************************************************************)
\* the expected vendor id of a signature read (0x1E)
SIGNATURE == 30
\* retry bound of one variant's signature poll: if (timeout++ > 1000) break
TimeoutLimit == 1000
\* a read chunk shorter than this ends the transfer: if (len < 8)
ChunkMax == 8
\* bits [7:0] of (address >> 17) form the extended address byte
ExtShift == 17
\* block flags of a write-flash header (data[5] & 0x0F)
PROG_BLOCKFLAG_FIRST == 1
PROG_BLOCKFLAG_LAST == 2
\* the error sentinel of an out-of-state data phase
ErrSentinel == 255
\* clock pulses of one serial frame (for (i = 0; i < 11; i++))
FramePulses == 11

Pow2(n) == 2 ^ n
U8(x) == x % 256
U16(x) == x % 65536
\* An unsigned long c is represented by the integer of -2^31 .. 2^31 - 1 that
\* is congruent to it modulo 2^32 (0xFFFFFFFC is -4): c >> n is \div 2^n and
\* c & mask is %, and 0xFFFFFFFF + 1 is 0.  No address of the model comes
\* near 2^31, where this representation would wrap.
U32(x) == x
Shr(x, n) == x \div Pow2(n)

\* device types set by avr_progMode
FullBus == 0
ShortBus == 1
SerialHV == 2
DevTypes == {FullBus, ShortBus, SerialHV}
IsParallel(dt) == dt = 0 \/ dt = 1

(***************************************************************************)
(* Transport events.  Every pin-level transaction of the transport layer   *)
(* and every access-layer call appends one event to the log of the handler *)
(* invocation that performs it.                                            *)
(***************************************************************************)
Ev(op, a, b) == [op |-> op, a |-> a, b |-> b]
Emit(m, e) == [m EXCEPT !.ops = Append(@, e)]

\* avr_serialExchange: one 11-clock frame carrying instr on SII, data on SDI
avr_serialExchange(m, instr, data) == Emit(m, Ev("sx", instr, data))

\* bit k of x
Bit(x, k) == (x \div Pow2(k)) % 2

RECURSIVE ExchangeLoop(_, _, _, _, _)
\* the loop of avr_serialExchange from pulse i on: f.sii and f.sdi are the
\* levels driven so far, f.request the bits sampled so far; sdo[i + 1] is the
\* level of SDO after pulse i
ExchangeLoop(command, dat, sdo, i, f) ==
    IF i >= FramePulses
    THEN f
    ELSE ExchangeLoop(command, dat, sdo, i + 1,
                      [sii |-> Append(f.sii, Bit(Shr(command, 10 - i), 0)),
                       sdi |-> Append(f.sdi, Bit(Shr(dat, 10 - i), 0)),
                       request |-> IF sdo[i + 1] = 1 /\ Bit(f.request, 10 - i) = 0
                                   THEN U16(f.request + Pow2(10 - i))
                                   ELSE f.request])

\* serialExchangeFrame that returns request >> 2
serialExchangeFrameLate(instr, data, sdo) ==
    LET f == ExchangeLoop(U16(instr * 4), U16(data * 4), sdo, 0,
                          [sii |-> <<>>, sdi |-> <<>>, request |-> 0])
    IN  [sii |-> f.sii, sdi |-> f.sdi, result |-> U8(Shr(f.request, 2))]

\* avr_serialExchange, pin by pin: command = instr << 2, dat = data << 2,
\* one pulse per frame position, return (uchar)(request >> 3)
serialExchangeFrame(instr, data, sdo) ==
    LET f == ExchangeLoop(U16(instr * 4), U16(data * 4), sdo, 0,
                          [sii |-> <<>>, sdi |-> <<>>, request |-> 0])
    IN  [sii |-> f.sii, sdi |-> f.sdi, result |-> U8(Shr(f.request, 3))]

\* avr_reset: VPP low, 10 ms, VPP high
avr_reset(m) == Emit(m, Ev("reset", 0, 0))

\* avr_bsySerial: poll SDO until ready; after 0xFFF polls reset the target.
\* tmo: the target stays busy for the whole bound
avr_bsySerial(m, tmo) == IF tmo THEN avr_reset(m) ELSE m

\* avr_loadComm: parallel only; DATA_PORT = command, XA = 10, XTAL1 pulse
avr_loadComm(m, command) ==
    IF IsParallel(m.dev_type) THEN Emit(m, Ev("loadComm", command, 0)) ELSE m

\* avr_loadAdd(uchar add, uchar hi_lo): parallel only; XA = 00, BS1 = hi_lo
avr_loadAdd(m, add, hi_lo) ==
    IF IsParallel(m.dev_type) THEN Emit(m, Ev("loadAdd", U8(add), hi_lo)) ELSE m

\* ispUpdateExtended without the comparison with the cache
ispUpdateExtendedAlways(m, address) ==
    LET curr_hi == U8(Shr(address, ExtShift))
    IN  Emit([m EXCEPT !.isp_hiaddr = curr_hi], Ev("extAddr", curr_hi, 0))

\* ispUpdateExtended: load the extended address byte only if it changed
ispUpdateExtended(m, address) ==
    LET curr_hi == U8(Shr(address, ExtShift))
    IN  IF m.isp_hiaddr = curr_hi
        THEN m
        ELSE Emit([m EXCEPT !.isp_hiaddr = curr_hi], Ev("extAddr", curr_hi, 0))

(***************************************************************************)
(* Flash / EEPROM access layer                                             *)
(***************************************************************************)
parallelReadFlash(m, address) ==
    LET m1 == avr_loadComm(m, 2)
        m2 == ispUpdateExtended(m1, address)
        m3 == avr_loadAdd(m2, Shr(address, 9), 1)
        m4 == avr_loadAdd(m3, U8(Shr(address, 1)), 0)
    IN  Emit(m4, Ev("OE", address % 2, 0))

serialReadFlash(m, address) ==
    LET m1 == avr_serialExchange(m, 76, 2)
        m2 == avr_serialExchange(m1, 12, U8(Shr(address, 1)))
        m3 == avr_serialExchange(m2, 28, U8(Shr(address, 9)))
        m4 == avr_serialExchange(m3, 104, 0)
    IN  IF address % 2 = 1
        THEN avr_serialExchange(avr_serialExchange(m4, 120, 0), 124, 0)
        ELSE avr_serialExchange(avr_serialExchange(m4, 104, 0), 108, 0)

ispReadFlash(m, address) ==
    LET m1 == Emit(m, Ev("ispReadFlash", address, 0))
    IN  IF IsParallel(m.dev_type)
        THEN parallelReadFlash(m1, address)
        ELSE serialReadFlash(m1, address)

\* parallelWriteFlash with the two halves of the word driven in the other order
parallelWriteFlashHighFirst(m, address, data) ==
    LET m1 == IF m.prog_pagecounter >= m.prog_pagesize
              THEN [avr_loadComm(m, 16) EXCEPT !.prog_pagecounter = 0]
              ELSE m
    IN  IF address % 2 = 0
        THEN [m1 EXCEPT !.low_byte = data,
                        !.prog_pagecounter = U8(@ + 1)]
        ELSE LET m2 == avr_loadAdd(m1, U8(Shr(address, 1)), 0)
                 m3 == Emit(m2, Ev("dataHigh", data, 0))
                 m4 == Emit(m3, Ev("dataLow", m2.low_byte, 0))
                 m5 == Emit(m4, Ev("PAGEL", m2.low_byte, data))
             IN  [m5 EXCEPT !.prog_pagecounter = U8(@ + 1)]

\* the page-write instruction 0x10 goes out when the access layer's own
\* counter has reached the access layer's own page size
parallelWriteFlash(m, address, data) ==
    LET m1 == IF m.prog_pagecounter >= m.prog_pagesize
              THEN [avr_loadComm(m, 16) EXCEPT !.prog_pagecounter = 0]
              ELSE m
    IN  IF address % 2 = 0
        THEN [m1 EXCEPT !.low_byte = data,
                        !.prog_pagecounter = U8(@ + 1)]
        ELSE LET m2 == avr_loadAdd(m1, U8(Shr(address, 1)), 0)
                 m3 == Emit(m2, Ev("dataLow", m2.low_byte, 0))
                 m4 == Emit(m3, Ev("dataHigh", data, 0))
                 m5 == Emit(m4, Ev("PAGEL", m2.low_byte, data))
             IN  [m5 EXCEPT !.prog_pagecounter = U8(@ + 1)]

serialWriteFlash(m, address, data) ==
    LET m1 == IF m.prog_pagecounter >= m.prog_pagesize
              THEN [avr_serialExchange(m, 76, 16) EXCEPT !.prog_pagecounter = 0]
              ELSE m
    IN  IF address % 2 = 0
        THEN [m1 EXCEPT !.low_byte = data,
                        !.prog_pagecounter = U8(@ + 1)]
        ELSE LET m2 == avr_serialExchange(m1, 12, U8(Shr(address, 1)))
                 m3 == avr_serialExchange(m2, 44, m2.low_byte)
                 m4 == avr_serialExchange(m3, 60, data)
                 m5 == avr_serialExchange(m4, 125, 0)
                 m6 == avr_serialExchange(m5, 124, 0)
             IN  [m6 EXCEPT !.prog_pagecounter = U8(@ + 1)]

ispWriteFlash(m, address, data) ==
    LET m1 == Emit(m, Ev("ispWriteFlash", address, data))
    IN  IF IsParallel(m.dev_type)
        THEN parallelWriteFlash(m1, address, data)
        ELSE serialWriteFlash(m1, address, data)

\* site: the line of usbFunctionWrite that makes the call
ispFlushPage(m, address, site) ==
    LET m0 == Emit(m, Ev("ispFlushPage", address, site))
    IN  IF IsParallel(m.dev_type)
        THEN LET m1 == avr_loadAdd(m0, Shr(address, 9), 1)
                 m2 == ispUpdateExtended(m1, address)
                 m3 == Emit(m2, Ev("WR", 0, 0))
             IN  Emit(m3, Ev("cmdPulse", 0, 0))
        ELSE LET m1 == avr_serialExchange(m0, 28, U8(Shr(address, 9)))
                 m2 == avr_serialExchange(m1, 100, 0)
                 m3 == avr_serialExchange(m2, 108, 0)
             IN  avr_serialExchange(m3, 76, 0)

\* ispReadEEPROM(uint16_t address): the cursor is cut to 16 bits
ispReadEEPROM(m, address) ==
    LET a == U16(address)
        m0 == Emit(m, Ev("ispReadEEPROM", a, 0))
    IN  IF IsParallel(m.dev_type)
        THEN LET m1 == avr_loadComm(m0, 3)
                 m2 == avr_loadAdd(m1, U8(a), 1)
                 m3 == avr_loadAdd(m2, U8(a), 0)
             IN  Emit(m3, Ev("OE", 0, 0))
        ELSE LET m1 == avr_serialExchange(m0, 76, 3)
                 m2 == avr_serialExchange(m1, 12, U8(a))
                 m3 == avr_serialExchange(m2, 28, Shr(a, 8))
                 m4 == avr_serialExchange(m3, 104, 0)
             IN  avr_serialExchange(m4, 108, 0)

\* ispWriteEEPROM(uint16_t address, uint8_t data)
ispWriteEEPROM(m, address, data, tmo) ==
    LET a == U16(address)
        m0 == Emit(m, Ev("ispWriteEEPROM", a, data))
    IN  IF IsParallel(m.dev_type)
        THEN m0
        ELSE LET m1 == avr_serialExchange(m0, 76, 17)
                 m2 == avr_serialExchange(m1, 12, U8(a))
                 m3 == avr_serialExchange(m2, 28, Shr(a, 8))
                 m4 == avr_serialExchange(m3, 44, data)
                 m5 == avr_serialExchange(m4, 109, 0)
                 m6 == avr_serialExchange(m5, 100, 0)
                 m7 == avr_serialExchange(m6, 108, 0)
             IN  avr_bsySerial(m7, tmo)

\* ispSetSCKOption: the option is not used
ispSetSCKOption(m, tmo) ==
    LET m1 == avr_serialExchange(m, 76, 128)
        m2 == avr_serialExchange(m1, 100, 0)
        m3 == avr_serialExchange(m2, 108, 0)
    IN  avr_bsySerial(m3, tmo)

\* ispConnect: control port driven, WR and OE high, extended address cache 0
ispConnect(m) == Emit([m EXCEPT !.isp_hiaddr = 0], Ev("connect", 0, 0))

\* ispDisconnect: bus released, VDD and VPP low
ispDisconnect(m) == Emit(m, Ev("powerDown", 0, 0))

(***************************************************************************)
(* Host command state machine                                              *)
(***************************************************************************)
VARIABLES
    prog,              \* static ProgrammingState prog
    dev_type,          \* uchar dev_type
    isp_hiaddr,        \* uchar isp_hiaddr: cached extended address byte
    low_byte,          \* uchar low_byte: pending low byte of a flash word
    prog_pagecounter,  \* uchar prog_pagecounter of the access layer
    prog_pagesize,     \* unsigned int prog_pagesize of the access layer
    replyBuffer,       \* static uchar replyBuffer[8], bytes 0..3
    ret,               \* value the last handler invocation returned
    last,              \* the last handler invoked (a command, or a data phase)
    hist,              \* what the current streaming command has done so far
    det                \* position of avr_progMode and what it has done

vars == <<prog, dev_type, isp_hiaddr, low_byte, prog_pagecounter,
          prog_pagesize, replyBuffer, ret, last, hist, det>>

ReadStates == {"READFLASH", "READEEPROM"}
WriteStates == {"WRITEFLASH", "WRITEEEPROM"}
ProgStates == {"IDLE", "TPI_READ", "TPI_WRITE"} \cup ReadStates \cup WriteStates

\* the C variables a handler reads and writes, as one value; ops collects
\* the transport events of the invocation
Cur == [prog |-> prog, dev_type |-> dev_type, isp_hiaddr |-> isp_hiaddr,
        low_byte |-> low_byte, prog_pagecounter |-> prog_pagecounter,
        prog_pagesize |-> prog_pagesize, replyBuffer |-> replyBuffer,
        ops |-> <<>>, ret |-> 0]

\* (data[3] << 8) | data[2]: a 16-bit int, converted to unsigned long
LegacyAddress(d2, d3) ==
    LET v == d3 * 256 + d2
    IN  IF v >= 32768 THEN U32(v - 65536) ELSE v

\* (data[7] << 8) | data[6], stored in an unsigned int
HeaderLength(d6, d7) == U16(d7 * 256 + d6)

\* *((unsigned long*) &data[2]): four bytes, least significant first
LongAddress(d2, d3, d4, d5) ==
    U32(d2 + 256 * d3 + 65536 * d4 + 16777216 * (IF d5 >= 128 THEN d5 - 256 ELSE d5))

HasFlag(flags, f) == (flags \div f) % 2 = 1

SetStartAddress(m, d2, d3) ==
    IF m.prog.address_newmode = 0
    THEN [m EXCEPT !.prog.address = LegacyAddress(d2, d3)]
    ELSE m

\* SetupConnect that also ends a streaming operation
SetupConnectResetting(m, tmo) ==
    LET m1 == ispSetSCKOption(m, tmo)
        m2 == [m1 EXCEPT !.prog.address_newmode = 0, !.prog.state = "IDLE"]
    IN  [ispConnect(m2) EXCEPT !.ret = 0]

\* USBASP_FUNC_CONNECT
SetupConnect(m, tmo) ==
    LET m1 == ispSetSCKOption(m, tmo)
        m2 == [m1 EXCEPT !.prog.address_newmode = 0]
    IN  [ispConnect(m2) EXCEPT !.ret = 0]

\* SetupDisconnect that also resets the session
SetupDisconnectResetting(m) ==
    [ispDisconnect(m) EXCEPT !.ret = 0, !.prog.state = "IDLE",
                             !.prog.address_newmode = 0, !.dev_type = 0]

\* USBASP_FUNC_DISCONNECT
SetupDisconnect(m) == [ispDisconnect(m) EXCEPT !.ret = 0]

\* USBASP_FUNC_READFLASH
SetupReadFlash(m, d2, d3, d6, d7) ==
    [SetStartAddress(m, d2, d3) EXCEPT !.prog.nbytes = HeaderLength(d6, d7),
                                       !.prog.state = "READFLASH",
                                       !.ret = 255]

\* USBASP_FUNC_READEEPROM
SetupReadEEPROM(m, d2, d3, d6, d7) ==
    [SetStartAddress(m, d2, d3) EXCEPT !.prog.nbytes = HeaderLength(d6, d7),
                                       !.prog.state = "READEEPROM",
                                       !.ret = 255]

\* USBASP_FUNC_ENABLEPROG: outcome = <<dev_type, status>> of avr_progMode
SetupEnableProg(m, outcome) ==
    [m EXCEPT !.dev_type = outcome[1],
              !.replyBuffer[1] = outcome[2],
              !.ret = 1]

\* SetupWriteFlash that clears the pending low byte
SetupWriteFlashClearing(m, d2, d3, d4, d5, d6, d7) ==
    LET flags == d5 % 16
        size == U16(d4 + ((d5 \div 16) * 16) * 16)
        m1 == SetStartAddress(m, d2, d3)
        m2 == [m1 EXCEPT !.prog.pagesize = size, !.prog.blockflags = flags]
        m3 == IF HasFlag(flags, PROG_BLOCKFLAG_FIRST)
              THEN [m2 EXCEPT !.prog.pagecounter = U8(size)]
              ELSE m2
    IN  [m3 EXCEPT !.prog.nbytes = HeaderLength(d6, d7),
                   !.prog.state = "WRITEFLASH",
                   !.low_byte = 0,
                   !.ret = 255]

\* SetupWriteFlash that arms the page counter whatever the block flags
SetupWriteFlashRearming(m, d2, d3, d4, d5, d6, d7) ==
    LET flags == d5 % 16
        size == U16(d4 + ((d5 \div 16) * 16) * 16)
        m1 == SetStartAddress(m, d2, d3)
        m2 == [m1 EXCEPT !.prog.pagesize = size, !.prog.blockflags = flags,
                         !.prog.pagecounter = U8(size)]
    IN  [m2 EXCEPT !.prog.nbytes = HeaderLength(d6, d7),
                   !.prog.state = "WRITEFLASH",
                   !.ret = 255]

\* USBASP_FUNC_WRITEFLASH
SetupWriteFlash(m, d2, d3, d4, d5, d6, d7) ==
    LET flags == d5 % 16
        size == U16(d4 + ((d5 \div 16) * 16) * 16)
        m1 == SetStartAddress(m, d2, d3)
        m2 == [m1 EXCEPT !.prog.pagesize = size, !.prog.blockflags = flags]
        m3 == IF HasFlag(flags, PROG_BLOCKFLAG_FIRST)
              THEN [m2 EXCEPT !.prog.pagecounter = U8(size)]
              ELSE m2
    IN  [m3 EXCEPT !.prog.nbytes = HeaderLength(d6, d7),
                   !.prog.state = "WRITEFLASH",
                   !.ret = 255]

\* USBASP_FUNC_WRITEEEPROM
SetupWriteEEPROM(m, d2, d3, d6, d7) ==
    [SetStartAddress(m, d2, d3) EXCEPT !.prog.pagesize = 0,
                                       !.prog.blockflags = 0,
                                       !.prog.nbytes = HeaderLength(d6, d7),
                                       !.prog.state = "WRITEEEPROM",
                                       !.ret = 255]

\* USBASP_FUNC_SETLONGADDRESS
SetupSetLongAddress(m, d2, d3, d4, d5) ==
    [m EXCEPT !.prog.address_newmode = 1,
              !.prog.address = LongAddress(d2, d3, d4, d5),
              !.ret = 0]

\* USBASP_FUNC_SETISPSCK
SetupSetISPSCK(m, d2) ==
    [m EXCEPT !.prog.sck_option = d2, !.replyBuffer[1] = 0, !.ret = 1]

\* USBASP_FUNC_TPI_CONNECT: reset pulse, then tpi_init of the TPI collaborator
SetupTpiConnect(m) == [Emit(m, Ev("tpi_init", 0, 0)) EXCEPT !.ret = 0]

\* USBASP_FUNC_TPI_DISCONNECT: tpi_send_byte twice, then the lines released
SetupTpiDisconnect(m) == [Emit(m, Ev("tpi_send_byte", 0, 0)) EXCEPT !.ret = 0]

\* USBASP_FUNC_TPI_READBLOCK
SetupTpiReadBlock(m, d2, d3, d6, d7) ==
    [m EXCEPT !.prog.address = LegacyAddress(d2, d3),
              !.prog.nbytes = HeaderLength(d6, d7),
              !.prog.state = "TPI_READ",
              !.ret = 255]

\* USBASP_FUNC_TPI_WRITEBLOCK
SetupTpiWriteBlock(m, d2, d3, d6, d7) ==
    [m EXCEPT !.prog.address = LegacyAddress(d2, d3),
              !.prog.nbytes = HeaderLength(d6, d7),
              !.prog.state = "TPI_WRITE",
              !.ret = 255]

\* USBASP_FUNC_GETCAPABILITIES: replyBuffer = {USBASP_CAP_0_TPI, 0, 0, 0}
SetupGetCapabilities(m) ==
    [m EXCEPT !.replyBuffer = <<1, 0, 0, 0>>, !.ret = 4]

(***************************************************************************)
(* Data phases                                                             *)
(***************************************************************************)
RECURSIVE ReadLoop(_, _, _)
\* for (i = 0; i < len; i++) { data[i] = read(prog.address); prog.address++; }
ReadLoop(m, len, i) ==
    IF i >= len
    THEN m
    ELSE LET m1 == IF m.prog.state = "READFLASH"
                   THEN ispReadFlash(m, m.prog.address)
                   ELSE ispReadEEPROM(m, m.prog.address)
         IN  ReadLoop([m1 EXCEPT !.prog.address = U32(@ + 1)], len, i + 1)

\* usbFunctionRead that never ends the transfer
usbFunctionReadKeepState(m, len) ==
    IF m.prog.state \notin (ReadStates \cup {"TPI_READ"})
    THEN [m EXCEPT !.ret = 255]
    ELSE [ReadLoop(m, len, 0) EXCEPT !.ret = len]

\* usbFunctionRead that counts the bytes it produces down from prog.nbytes
\* and ends the transfer at zero
usbFunctionReadCounting(m, len) ==
    IF m.prog.state \notin (ReadStates \cup {"TPI_READ"})
    THEN [m EXCEPT !.ret = 255]
    ELSE IF m.prog.state = "TPI_READ"
    THEN [Emit(m, Ev("tpi_read_block", m.prog.address, len))
             EXCEPT !.prog.address = U32(@ + len), !.ret = len]
    ELSE LET m1 == [ReadLoop(m, len, 0) EXCEPT !.prog.nbytes = U16(@ + 65536 - len)]
             m2 == IF len < ChunkMax \/ m1.prog.nbytes = 0
                   THEN [m1 EXCEPT !.prog.state = "IDLE"]
                   ELSE m1
         IN  [m2 EXCEPT !.ret = len]

usbFunctionRead(m, len) ==
    IF m.prog.state \notin (ReadStates \cup {"TPI_READ"})
    THEN [m EXCEPT !.ret = 255]
    ELSE IF m.prog.state = "TPI_READ"
    THEN [Emit(m, Ev("tpi_read_block", m.prog.address, len))
             EXCEPT !.prog.address = U32(@ + len), !.ret = len]
    ELSE LET m1 == ReadLoop(m, len, 0)
             m2 == IF len < ChunkMax
                   THEN [m1 EXCEPT !.prog.state = "IDLE"]
                   ELSE m1
         IN  [m2 EXCEPT !.ret = len]

\* WriteByte without the flush of a pending partial page at the end
WriteByteNoFinalFlush(m, d, tmo) ==
    LET m1 == IF m.prog.state = "WRITEFLASH"
              THEN IF m.prog.pagesize = 0
                   THEN ispWriteFlash(m, m.prog.address, d)
                   ELSE LET w == ispWriteFlash(m, m.prog.address, d)
                            c == [w EXCEPT !.prog.pagecounter = U8(@ + 255)]
                        IN  IF c.prog.pagecounter = 0
                            THEN [ispFlushPage(c, c.prog.address, 915)
                                     EXCEPT !.prog.pagecounter = U8(c.prog.pagesize)]
                            ELSE c
              ELSE ispWriteEEPROM(m, m.prog.address, d, tmo)
        m2 == [m1 EXCEPT !.prog.nbytes = U16(@ + 65535)]
        m3 == IF m2.prog.nbytes = 0
              THEN [m2 EXCEPT !.prog.state = "IDLE", !.ret = 1]
              ELSE m2
    IN  [m3 EXCEPT !.prog.address = U32(@ + 1)]

\* WriteByte that does not re-arm the page counter after a flush
WriteByteNoRearm(m, d, tmo) ==
    LET m1 == IF m.prog.state = "WRITEFLASH"
              THEN IF m.prog.pagesize = 0
                   THEN ispWriteFlash(m, m.prog.address, d)
                   ELSE LET w == ispWriteFlash(m, m.prog.address, d)
                            c == [w EXCEPT !.prog.pagecounter = U8(@ + 255)]
                        IN  IF c.prog.pagecounter = 0
                            THEN ispFlushPage(c, c.prog.address, 915)
                            ELSE c
              ELSE ispWriteEEPROM(m, m.prog.address, d, tmo)
        m2 == [m1 EXCEPT !.prog.nbytes = U16(@ + 65535)]
        m3 == IF m2.prog.nbytes = 0
              THEN LET q == [m2 EXCEPT !.prog.state = "IDLE"]
                       f == IF HasFlag(q.prog.blockflags, PROG_BLOCKFLAG_LAST)
                               /\ q.prog.pagecounter # q.prog.pagesize
                            THEN ispFlushPage(q, q.prog.address, 931)
                            ELSE q
                   IN  [f EXCEPT !.ret = 1]
              ELSE m2
    IN  [m3 EXCEPT !.prog.address = U32(@ + 1)]

\* WriteByte that tests the remaining count before it decrements it
WriteByteTestFirst(m, d, tmo) ==
    LET m1 == IF m.prog.state = "WRITEFLASH"
              THEN IF m.prog.pagesize = 0
                   THEN ispWriteFlash(m, m.prog.address, d)
                   ELSE LET w == ispWriteFlash(m, m.prog.address, d)
                            c == [w EXCEPT !.prog.pagecounter = U8(@ + 255)]
                        IN  IF c.prog.pagecounter = 0
                            THEN [ispFlushPage(c, c.prog.address, 915)
                                     EXCEPT !.prog.pagecounter = U8(c.prog.pagesize)]
                            ELSE c
              ELSE ispWriteEEPROM(m, m.prog.address, d, tmo)
        m2 == IF m1.prog.nbytes = 0
              THEN LET q == [m1 EXCEPT !.prog.state = "IDLE"]
                       f == IF HasFlag(q.prog.blockflags, PROG_BLOCKFLAG_LAST)
                               /\ q.prog.pagecounter # q.prog.pagesize
                            THEN ispFlushPage(q, q.prog.address, 931)
                            ELSE q
                   IN  [f EXCEPT !.ret = 1]
              ELSE m1
        m3 == [m2 EXCEPT !.prog.nbytes = U16(@ + 65535)]
    IN  [m3 EXCEPT !.prog.address = U32(@ + 1)]

\* one pass of the body of the write loop, for data[i] = d
WriteByte(m, d, tmo) ==
    LET m1 == IF m.prog.state = "WRITEFLASH"
              THEN IF m.prog.pagesize = 0
                   THEN ispWriteFlash(m, m.prog.address, d)
                   ELSE LET w == ispWriteFlash(m, m.prog.address, d)
                            c == [w EXCEPT !.prog.pagecounter = U8(@ + 255)]
                        IN  IF c.prog.pagecounter = 0
                            THEN [ispFlushPage(c, c.prog.address, 915)
                                     EXCEPT !.prog.pagecounter = U8(c.prog.pagesize)]
                            ELSE c
              ELSE ispWriteEEPROM(m, m.prog.address, d, tmo)
        m2 == [m1 EXCEPT !.prog.nbytes = U16(@ + 65535)]
        m3 == IF m2.prog.nbytes = 0
              THEN LET q == [m2 EXCEPT !.prog.state = "IDLE"]
                       f == IF HasFlag(q.prog.blockflags, PROG_BLOCKFLAG_LAST)
                               /\ q.prog.pagecounter # q.prog.pagesize
                            THEN ispFlushPage(q, q.prog.address, 931)
                            ELSE q
                   IN  [f EXCEPT !.ret = 1]
              ELSE m2
    IN  [m3 EXCEPT !.prog.address = U32(@ + 1)]

RECURSIVE WriteLoop(_, _, _, _)
\* for (i = 0; i < len; i++)
WriteLoop(m, data, i, tmo) ==
    IF i > Len(data)
    THEN m
    ELSE WriteLoop(WriteByte(m, data[i], tmo), data, i + 1, tmo)

\* usbFunctionWrite without the check of the state
usbFunctionWriteNoCheck(m, data, tmo) == WriteLoop([m EXCEPT !.ret = 0], data, 1, tmo)

usbFunctionWrite(m, data, tmo) ==
    IF m.prog.state \notin (WriteStates \cup {"TPI_WRITE"})
    THEN [m EXCEPT !.ret = 255]
    ELSE IF m.prog.state = "TPI_WRITE"
    THEN LET m1 == [Emit(m, Ev("tpi_write_block", m.prog.address, Len(data)))
                       EXCEPT !.prog.address = U32(@ + Len(data)),
                              !.prog.nbytes = U16(@ + 65536 - Len(data))]
         IN  IF m1.prog.nbytes = 0
             THEN [m1 EXCEPT !.prog.state = "IDLE", !.ret = 1]
             ELSE [m1 EXCEPT !.ret = 0]
    ELSE WriteLoop([m EXCEPT !.ret = 0], data, 1, tmo)

(***************************************************************************)
(* Inputs the host and the target supply                                   *)
(***************************************************************************)
\* transfer lengths of a header (bytes[6..7])
Lengths == 0 .. MaxBytes
\* page sizes of a write-flash header: byte[4] (byte[5] bits [7:4] are 0)
PageSizes == 0 .. MaxPage
BlockFlags == 0 .. 3
\* lengths of the chunks of a data phase
ChunkLens == 1 .. ChunkMax
\* the image the host writes: the data byte that goes to an address
Image(a) == 17 * ((a % 4) + 1)
\* the chunk of len bytes the host sends when the cursor is at address
Chunk(address, len) == [i \in 1 .. len |-> Image(address + i - 1)]
\* every <<dev_type, status>> avr_progMode can end with
ProgModeOutcomes == {<<FullBus, 0>>, <<ShortBus, 0>>, <<SerialHV, 0>>, <<SerialHV, 1>>}

Lo(x) == x % 256
Hi(x) == (x \div 256) % 256

\* 32-bit addresses of set-long-address (bytes[2..5])
LongAddrs == {131068, 33554432}
\* the cursor stays within span bytes of a start address
InSpan(address, len, span) ==
    \E s \in {0} \cup LongAddrs : address >= s /\ (address - s) + len <= span

(***************************************************************************)
(* History of the current streaming command: what its data phases have     *)
(* done so far.  A specification either keeps it or leaves it alone.       *)
(***************************************************************************)
NoHist == [k |-> 0, cmd |-> "NONE", n0 |-> 0, cflush |-> 0, fflush |-> 0,
           loads |-> <<>>, s0 |-> "IDLE", a0 |-> 0, calls |-> <<>>,
           rseg |-> -1, rprev |-> -1, pre |-> 0, reads |-> <<>>, acc |-> {},
           arg |-> 0, sel |-> <<>>, la |-> -1, even |-> -1, even0 |-> -1,
           frame |-> <<>>, total |-> 0, fin |-> 0]

\* track: "none", "write" (flushes and page loads of a write stream),
\* "multi" (the blocks of one transfer: k the blocks so far, n0 the length
\* of the current block, total the bytes written since the command with the
\* first-block flag, cflush and fflush the flushes since then, fin the
\* flushes the last data phase made at completion),
\* "low" (sel the log of the last write data phase, even the data of the
\* latest writeFlash at an even address so far, even0 the same before the
\* last write data phase),
\* "read" (what the last read data phase did: s0 and a0 the state and the
\* cursor it found, calls the read calls it made) or "ext" (the extended
\* address loads of the last read data phase: pre the cache it found, rprev
\* the segment of the readFlash before it, reads its read calls with their
\* loads, rseg the segment of the last readFlash so far)
CmdHist(track, h, m, cmd) ==
    IF track = "write"
    THEN [NoHist EXCEPT !.k = h.k + 1, !.cmd = cmd, !.n0 = m.prog.nbytes]
    ELSE IF track = "multi"
    THEN IF HasFlag(m.prog.blockflags, PROG_BLOCKFLAG_FIRST)
         THEN [NoHist EXCEPT !.k = 1, !.cmd = cmd, !.n0 = m.prog.nbytes]
         ELSE [h EXCEPT !.k = @ + 1, !.cmd = cmd, !.n0 = m.prog.nbytes, !.fin = 0]
    ELSE h

CountEv(s, op, b) == Cardinality({i \in DOMAIN s : s[i].op = op /\ s[i].b = b})
SelectOps(s, names) == SelectSeq(s, LAMBDA e : e.op \in names)
FirstN(s, n) == IF Len(s) <= n THEN s ELSE SubSeq(s, 1, n)
LastOf(s) == s[Len(s)]

\* the events that put a word into the page buffer
IsWordEvent(e) == \/ e.op \in {"dataLow", "dataHigh", "PAGEL"}
                  \/ e.op = "sx" /\ e.a \in {44, 60, 125}

ReadCalls == {"ispReadFlash", "ispReadEEPROM"}
IsReadCall(e) == e.op \in ReadCalls

\* how many events of s come before the first one of the kinds in names
PrefixLen(s, names) ==
    IF \E i \in DOMAIN s : s[i].op \in names
    THEN (CHOOSE i \in DOMAIN s :
              s[i].op \in names /\ \A j \in 1 .. i - 1 : s[j].op \notin names) - 1
    ELSE Len(s)

\* one read call, from the events g it logged: the address it got, the
\* extended address bytes it loaded before its data strobe, and whether it
\* loaded one after the strobe
ReadRec(g) ==
    LET n == PrefixLen(g, {"OE"})
        before == SubSeq(g, 1, n)
        after == SubSeq(g, n + 1, Len(g))
        ext == SelectOps(before, {"extAddr"})
    IN  [op |-> g[1].op, a |-> g[1].a,
         ext |-> [i \in DOMAIN ext |-> ext[i].a],
         late |-> SelectOps(after, {"extAddr"}) # <<>>]

RECURSIVE SplitReads(_)
\* the read calls of a log that starts with a read call
SplitReads(s) ==
    IF s = <<>>
    THEN <<>>
    ELSE LET n == PrefixLen(Tail(s), ReadCalls)
         IN  <<ReadRec(SubSeq(s, 1, n + 1))>> \o SplitReads(SubSeq(s, n + 2, Len(s)))

\* the writeFlash calls of a log that are at an even address
EvenWrites(s) == SelectSeq(s, LAMBDA e : e.op = "ispWriteFlash" /\ e.a % 2 = 0)

\* after a data phase that returned m
DataHist(track, h, m) ==
    IF track = "write" /\ m.ret # ErrSentinel
    THEN [h EXCEPT !.cflush = @ + CountEv(m.ops, "ispFlushPage", 915),
                   !.fflush = @ + CountEv(m.ops, "ispFlushPage", 931),
                   !.loads = FirstN(@ \o SelectSeq(m.ops, IsWordEvent), 6)]
    ELSE IF track = "multi"
    THEN [h EXCEPT !.cflush = @ + CountEv(m.ops, "ispFlushPage", 915),
                   !.fflush = @ + CountEv(m.ops, "ispFlushPage", 931),
                   !.fin = CountEv(m.ops, "ispFlushPage", 931),
                   !.total = @ + Len(SelectOps(m.ops, {"ispWriteFlash"}))]
    ELSE IF track = "low"
    THEN LET evens == EvenWrites(m.ops)
         IN  [h EXCEPT !.sel = m.ops,
                       !.even0 = h.even,
                       !.even = IF evens = <<>> THEN @ ELSE LastOf(evens).b]
    ELSE IF track = "read"
    THEN LET c == SelectSeq(m.ops, IsReadCall)
         IN  [h EXCEPT !.s0 = prog.state,
                       !.a0 = prog.address,
                       !.calls = [i \in DOMAIN c |-> <<c[i].op, c[i].a>>]]
    ELSE IF track = "ext"
    THEN LET flash == SelectOps(m.ops, {"ispReadFlash"})
         IN  [h EXCEPT !.pre = isp_hiaddr,
                       !.rprev = h.rseg,
                       !.reads = SplitReads(m.ops),
                       !.rseg = IF flash = <<>> THEN @
                                ELSE Shr(LastOf(flash).a, ExtShift)]
    ELSE h

\* the kinds of transport event and access-layer call of a log
Kinds(s) == {s[i].op : i \in DOMAIN s}

\* the handler named l has returned m; acc is what it drove and called
Commit(m, l, h) ==
    /\ prog' = m.prog
    /\ dev_type' = m.dev_type
    /\ isp_hiaddr' = m.isp_hiaddr
    /\ low_byte' = m.low_byte
    /\ prog_pagecounter' = m.prog_pagecounter
    /\ prog_pagesize' = m.prog_pagesize
    /\ replyBuffer' = m.replyBuffer
    /\ ret' = m.ret
    /\ last' = l
    /\ hist' = [h EXCEPT !.acc = Kinds(m.ops)]
    /\ UNCHANGED det

(***************************************************************************)
(* Actions: one per branch of usbFunctionSetup, and the two data phases.   *)
(* The sets an action draws the header fields from are its parameters.     *)
(***************************************************************************)
Connect ==
    \E tmo \in BOOLEAN : Commit(SetupConnect(Cur, tmo), "CONNECT", hist)

Disconnect == Commit(SetupDisconnect(Cur), "DISCONNECT", hist)

ReadFlashCmd(addrs, lens, track) ==
    \E a \in addrs, n \in lens :
        LET m == SetupReadFlash(Cur, Lo(a), Hi(a), Lo(n), Hi(n))
        IN  Commit(m, "READFLASH", CmdHist(track, hist, m, "READFLASH"))

ReadEEPROMCmd(addrs, lens, track) ==
    \E a \in addrs, n \in lens :
        LET m == SetupReadEEPROM(Cur, Lo(a), Hi(a), Lo(n), Hi(n))
        IN  Commit(m, "READEEPROM", CmdHist(track, hist, m, "READEEPROM"))

EnableProg ==
    \E o \in ProgModeOutcomes : Commit(SetupEnableProg(Cur, o), "ENABLEPROG", hist)

WriteFlashCmd(addrs, lens, sizes, flags, track) ==
    \E a \in addrs, n \in lens, p \in sizes, f \in flags :
        LET m == SetupWriteFlash(Cur, Lo(a), Hi(a), Lo(p), Hi(p) * 16 + f, Lo(n), Hi(n))
        IN  Commit(m, "WRITEFLASH", CmdHist(track, hist, m, "WRITEFLASH"))

WriteEEPROMCmd(addrs, lens, track) ==
    \E a \in addrs, n \in lens :
        LET m == SetupWriteEEPROM(Cur, Lo(a), Hi(a), Lo(n), Hi(n))
        IN  Commit(m, "WRITEEEPROM", CmdHist(track, hist, m, "WRITEEEPROM"))

SetLongAddressCmd(addrs) ==
    \E a \in addrs :
        Commit(SetupSetLongAddress(Cur, Lo(a), Hi(a), Hi(a \div 256), Hi(a \div 65536)),
               "SETLONGADDRESS", hist)

SetISPSCK == \E o \in {0} : Commit(SetupSetISPSCK(Cur, o), "SETISPSCK", hist)

TpiConnect == Commit(SetupTpiConnect(Cur), "TPI_CONNECT", hist)

TpiDisconnect == Commit(SetupTpiDisconnect(Cur), "TPI_DISCONNECT", hist)

TpiReadBlock ==
    \E a \in {0}, n \in {2} :
        Commit(SetupTpiReadBlock(Cur, Lo(a), Hi(a), Lo(n), Hi(n)), "TPI_READBLOCK", hist)

TpiWriteBlock ==
    \E a \in {0}, n \in {2} :
        Commit(SetupTpiWriteBlock(Cur, Lo(a), Hi(a), Lo(n), Hi(n)), "TPI_WRITEBLOCK", hist)

GetCapabilities == Commit(SetupGetCapabilities(Cur), "GETCAPABILITIES", hist)

DataReadLen(lens, span, track) ==
    \E len \in lens :
        /\ InSpan(prog.address, len, span)
        /\ LET m == usbFunctionRead(Cur, len)
           IN  Commit(m, "usbFunctionRead", DataHist(track, hist, m))

DataWriteLen(lens, span, track) ==
    \E len \in lens, tmo \in BOOLEAN :
        /\ InSpan(prog.address, len, span)
        /\ prog.state = "TPI_WRITE" => len <= prog.nbytes
        /\ LET m == usbFunctionWrite(Cur, Chunk(prog.address, len), tmo)
           IN  Commit(m, "usbFunctionWrite", DataHist(track, hist, m))

\* avr_progMode has not been called
NoDet == [pc |-> "idle", timeout |-> 0, reads |-> 0, total |-> 0, entered |-> {},
          matched |-> {}, status |-> 0]

Init ==
    /\ prog = [state |-> "IDLE", sck_option |-> 0, address_newmode |-> 0,
               address |-> 0, nbytes |-> 0, pagesize |-> 0, blockflags |-> 0,
               pagecounter |-> 0]
    /\ dev_type = 0
    /\ isp_hiaddr = 0
    /\ low_byte = 0
    /\ prog_pagecounter = 0
    /\ prog_pagesize = 0
    /\ replyBuffer = <<0, 0, 0, 0>>
    /\ ret = 0
    /\ last = "none"
    /\ hist = NoHist
    /\ det = NoDet

(***************************************************************************)
(* Spec: a host that sends every command, with short transfers             *)
(***************************************************************************)
ReadFlash == ReadFlashCmd({0}, {2}, "none")
ReadEEPROM == ReadEEPROMCmd({0}, {2}, "none")
WriteFlash == WriteFlashCmd({0}, {2}, {2}, {3}, "none")
WriteEEPROM == WriteEEPROMCmd({0}, {2}, "none")
SetLongAddress == SetLongAddressCmd({0})
DataRead == DataReadLen({1, ChunkMax}, ChunkMax, "none")
DataWrite == DataWriteLen({1, 2}, 2, "none")

Next ==
    \/ Connect
    \/ Disconnect
    \/ ReadFlash
    \/ ReadEEPROM
    \/ EnableProg
    \/ WriteFlash
    \/ WriteEEPROM
    \/ SetLongAddress
    \/ SetISPSCK
    \/ TpiConnect
    \/ TpiDisconnect
    \/ TpiReadBlock
    \/ TpiWriteBlock
    \/ GetCapabilities
    \/ DataRead
    \/ DataWrite

Spec == Init /\ [][Next]_vars

(***************************************************************************)
(* SpecWrite: a host that only writes, with every transfer length, page    *)
(* size, block flag and chunk length                                       *)
(***************************************************************************)
WriteFlashStream ==
    hist.k < MaxCmds /\ WriteFlashCmd({0}, Lengths, PageSizes, BlockFlags, "write")
WriteEEPROMStream ==
    hist.k < MaxCmds /\ WriteEEPROMCmd({0}, {2}, "write")
DataWriteStream == DataWriteLen(ChunkLens, MaxSpan, "write")

NextWrite ==
    \/ WriteFlashStream
    \/ WriteEEPROMStream
    \/ DataWriteStream

SpecWrite == Init /\ [][NextWrite]_vars

(***************************************************************************)
(* SpecPage: a host that writes flash with page sizes of the whole range   *)
(* of the header, byte[5] bits [7:4] included                              *)
(***************************************************************************)
HeaderPageSizes == {1, 255, 256, 258, 4095}
WriteFlashPage ==
    /\ hist.k < MaxCmds
    /\ WriteFlashCmd({0}, {MaxBytes, MaxSpan}, HeaderPageSizes,
                     {PROG_BLOCKFLAG_FIRST, PROG_BLOCKFLAG_FIRST + PROG_BLOCKFLAG_LAST},
                     "write")
DataWritePage == DataWriteLen(ChunkLens, MaxSpan, "write")

NextPage ==
    \/ WriteFlashPage
    \/ DataWritePage

SpecPage == Init /\ [][NextPage]_vars

(***************************************************************************)
(* SpecFrame: one call of avr_serialExchange, with every response of the   *)
(* target on SDO                                                           *)
(***************************************************************************)
FrameBytes == {0, 1, 76, 128, 170, 255}
SdoLevels == [1 .. FramePulses -> {0, 1}]

InitFrame ==
    /\ prog = [state |-> "IDLE", sck_option |-> 0, address_newmode |-> 0,
               address |-> 0, nbytes |-> 0, pagesize |-> 0, blockflags |-> 0,
               pagecounter |-> 0]
    /\ dev_type = SerialHV
    /\ isp_hiaddr = 0
    /\ low_byte = 0
    /\ prog_pagecounter = 0
    /\ prog_pagesize = 0
    /\ replyBuffer = <<0, 0, 0, 0>>
    /\ ret = 0
    /\ last = "none"
    /\ \E instr \in FrameBytes, data \in FrameBytes, sdo \in SdoLevels :
           hist = [NoHist EXCEPT !.frame = [pc |-> "call", instr |-> instr,
                                           data |-> data, sdo |-> sdo,
                                           sii |-> <<>>, sdi |-> <<>>]]
    /\ det = NoDet

ExchangeFrame ==
    /\ hist.frame.pc = "call"
    /\ LET f == serialExchangeFrame(hist.frame.instr, hist.frame.data, hist.frame.sdo)
       IN  Commit([Cur EXCEPT !.ret = f.result], "avr_serialExchange",
                  [hist EXCEPT !.frame.pc = "done",
                               !.frame.sii = f.sii,
                               !.frame.sdi = f.sdi])

NextFrame == ExchangeFrame

SpecFrame == InitFrame /\ [][NextFrame]_vars

(***************************************************************************)
(* SpecCount: a host that reads transfers of one and of two full chunks    *)
(* and of a length that is no multiple of 8, with every chunk length       *)
(***************************************************************************)
ReadFlashCount == ReadFlashCmd({0}, {ChunkMax, 10, 2 * ChunkMax}, "read")
ReadEEPROMCount == ReadEEPROMCmd({0}, {ChunkMax}, "read")
DataReadCount == DataReadLen(ChunkLens, 2 * ChunkMax, "read")

NextCount ==
    \/ EnableProg
    \/ ReadFlashCount
    \/ ReadEEPROMCount
    \/ DataReadCount

SpecCount == Init /\ [][NextCount]_vars

(***************************************************************************)
(* SpecBlocks: a host that writes flash in several blocks: the first       *)
(* write-flash command has the first-block flag, the following ones have   *)
(* not and keep the page size; every block gets exactly its length of      *)
(* data, in chunks of any length                                           *)
(***************************************************************************)
BlockLens == 1 .. MaxBlockLen
BlockPages == 1 .. MaxBlockLen

WriteFlashFirst ==
    /\ prog.state = "IDLE"
    /\ hist.k = 0
    /\ WriteFlashCmd({0}, BlockLens, BlockPages,
                     {PROG_BLOCKFLAG_FIRST, PROG_BLOCKFLAG_FIRST + PROG_BLOCKFLAG_LAST},
                     "multi")

WriteFlashFollowing ==
    /\ prog.state = "IDLE"
    /\ hist.k \in 1 .. MaxBlocks - 1
    /\ WriteFlashCmd({prog.address}, BlockLens, {prog.pagesize},
                     {0, PROG_BLOCKFLAG_LAST}, "multi")

DataWriteBlock ==
    /\ prog.state = "WRITEFLASH"
    /\ DataWriteLen({l \in ChunkLens : l <= prog.nbytes}, MaxBlocks * MaxBlockLen, "multi")

NextBlocks ==
    \/ WriteFlashFirst
    \/ WriteFlashFollowing
    \/ DataWriteBlock

SpecBlocks == Init /\ [][NextBlocks]_vars

(***************************************************************************)
(* SpecLow: a host that writes flash from even and from odd start          *)
(* addresses, command after command, on parallel and serial devices        *)
(***************************************************************************)
OddStarts == {0, 1, 3}
WriteFlashLow == WriteFlashCmd(OddStarts, {1, 2}, {0, 2}, {PROG_BLOCKFLAG_FIRST}, "low")
DataWriteLow == DataWriteLen({1, 2}, MaxSpan, "low")

NextLow ==
    \/ EnableProg
    \/ WriteFlashLow
    \/ DataWriteLow

SpecLow == Init /\ [][NextLow]_vars

(***************************************************************************)
(* SpecRead: a host that only reads, in legacy and in long-address mode,   *)
(* with every chunk length                                                 *)
(***************************************************************************)
ReadFlashAt == ReadFlashCmd({0}, {10}, "read")
ReadEEPROMAt == ReadEEPROMCmd({0}, {10}, "read")
SetLongAddressAt == SetLongAddressCmd(LongAddrs)
DataReadAt == DataReadLen(ChunkLens, MaxSpan, "read")

NextRead ==
    \/ Connect
    \/ EnableProg
    \/ SetLongAddressAt
    \/ ReadFlashAt
    \/ ReadEEPROMAt
    \/ DataReadAt

SpecRead == Init /\ [][NextRead]_vars

(***************************************************************************)
(* SpecExt: a host that reads flash around a segment boundary and beyond   *)
(* the 8-bit segment range, on parallel and serial devices                 *)
(***************************************************************************)
ReadFlashExt == ReadFlashCmd({0}, {10}, "ext")
DataReadExt == DataReadLen(ChunkLens, MaxSpan, "ext")

NextExt ==
    \/ Connect
    \/ EnableProg
    \/ SetLongAddressAt
    \/ ReadFlashExt
    \/ DataReadExt

SpecExt == Init /\ [][NextExt]_vars

(***************************************************************************)
(* SpecDetect: avr_progMode, one signature read per step.                  *)
(*   det.pc       "poll": at the while condition of the current variant;   *)
(*                "confirm": at the if that follows the loop               *)
(*   det.timeout  uint16_t timeout                                         *)
(*   det.reads    avr_getId calls of the current variant so far            *)
(*   det.total    avr_getId calls of this call so far, counted as long as  *)
(*                no read has returned the signature (-1 afterwards)       *)
(*   det.entered  variants whose entry sequence has been driven            *)
(*   det.matched  variants one of whose reads returned the signature       *)
(*   det.status   the value returned                                       *)
(***************************************************************************)
\* what a signature read can return
SigResponses == {SIGNATURE, 255}

DetVars(d, dt) ==
    /\ det' = d
    /\ dev_type' = dt
    /\ UNCHANGED <<prog, isp_hiaddr, low_byte, prog_pagecounter, prog_pagesize,
                   replyBuffer, ret, last, hist>>

\* one avr_getId(0) call that returns r
GetId(d, r) ==
    [d EXCEPT !.reads = @ + 1,
              !.total = IF @ < 0 \/ r = SIGNATURE THEN -1 ELSE @ + 1,
              !.matched = IF r = SIGNATURE THEN @ \cup {dev_type} ELSE @]

\* the entry sequence of variant v, up to dev_type = v
EnterVariant(d, v) ==
    [d EXCEPT !.pc = "poll", !.timeout = 0, !.reads = 0, !.entered = @ \cup {v}]

\* the call, and the FullBus entry sequence
DetStart ==
    /\ det.pc \in {"idle", "done"}
    /\ DetVars(EnterVariant(NoDet, FullBus), FullBus)

\* while (avr_getId(0) != 0x1E) { if (timeout++ > 1000) break; _delay_ms(1); }
\* PollStep that gives up one retry late
PollStepLateBreak(d, r) ==
    LET g == GetId(d, r)
    IN  IF r = SIGNATURE
        THEN [g EXCEPT !.pc = "confirm"]
        ELSE IF d.timeout > TimeoutLimit + 1
        THEN [g EXCEPT !.timeout = U16(@ + 1), !.pc = "confirm"]
        ELSE [g EXCEPT !.timeout = U16(@ + 1)]

PollStep(d, r) ==
    LET g == GetId(d, r)
    IN  IF r = SIGNATURE
        THEN [g EXCEPT !.pc = "confirm"]
        ELSE IF d.timeout > TimeoutLimit
        THEN [g EXCEPT !.timeout = U16(@ + 1), !.pc = "confirm"]
        ELSE [g EXCEPT !.timeout = U16(@ + 1)]

DetPoll ==
    /\ det.pc = "poll"
    /\ \E r \in SigResponses : DetVars(PollStep(det, r), dev_type)

\* if (avr_getId(0) == 0x1E) return 0; else the next variant, or return 1
DetConfirm ==
    /\ det.pc = "confirm"
    /\ \E r \in SigResponses :
          LET g == GetId(det, r)
          IN  IF r = SIGNATURE
              THEN DetVars([g EXCEPT !.pc = "done", !.status = 0], dev_type)
              ELSE IF dev_type < SerialHV
              THEN DetVars(EnterVariant(g, dev_type + 1), dev_type + 1)
              ELSE DetVars([g EXCEPT !.pc = "done", !.status = 1], dev_type)

NextDetect ==
    \/ DetStart
    \/ DetPoll
    \/ DetConfirm

SpecDetect == Init /\ [][NextDetect]_vars

\* the processor keeps executing the function it has entered
SpecDetectFair == SpecDetect /\ WF_vars(DetPoll) /\ WF_vars(DetConfirm)

\* the ways avr_progMode ends are the outcomes EnableProg draws from
DetOutcomes == det.pc = "done" => <<dev_type, det.status>> \in ProgModeOutcomes

\* C4: detection short-circuits.  Once a signature read of a variant has
\* returned 0x1E, no later variant is entered or polled, and the call returns
\* 0 with dev_type the variant whose read matched.
C4_ShortCircuit ==
    \A v \in det.matched :
        /\ \A w \in det.entered : w <= v
        /\ det.pc = "done" => det.status = 0 /\ dev_type = v

\* the signature reads one variant can take: the polls that see timeout
\* 0 .. TimeoutLimit + 1, and the read after the loop
ReadsPerVariant == TimeoutLimit + 3

\* no variant takes more than 1003 signature reads; with no read returning
\* 0x1E the call returns 1 after all three variants, 3009 reads in total
DetectionBounds ==
    /\ det.reads <= ReadsPerVariant
    /\ det.pc = "done" /\ det.matched = {} =>
          /\ det.status = 1
          /\ det.entered = DevTypes
          /\ det.total = 3 * ReadsPerVariant

\* a call of avr_progMode returns
DetectionTerminates == det.pc \in {"poll", "confirm"} ~> det.pc = "done"

\* C5: detection is bounded and never hangs.  Whatever the target answers,
\* avr_progMode returns; when no signature read returns 0x1E it returns the
\* non-zero status after polling all three variants, with no more than 1003
\* signature reads per variant, 3009 in total.
C5_DetectionBounded == []DetectionBounds /\ DetectionTerminates

C5_Witness ==
    /\ det.pc = "done"
    /\ det.matched = {}
    /\ det.status = 1
    /\ det.total = 3009
    /\ det.reads = 1003

(***************************************************************************)
(* Write streams (SpecWrite).  hist describes the stream of the current    *)
(* write command: n0 its length, cflush the flushPage calls made when the  *)
(* page counter reached 0, fflush the flushPage calls made for a pending   *)
(* partial page at the end, loads the word transfers into the page buffer. *)
(***************************************************************************)
FirstBlock == HasFlag(prog.blockflags, PROG_BLOCKFLAG_FIRST)
LastBlock == HasFlag(prog.blockflags, PROG_BLOCKFLAG_LAST)

\* a write-flash command of n bytes with page size p is the current command
FlashStream(p, n) ==
    /\ hist.cmd = "WRITEFLASH"
    /\ prog.pagesize = p
    /\ hist.n0 = n

\* its data phase has taken exactly the n0 bytes and has reported completion
StreamComplete ==
    /\ prog.state = "IDLE"
    /\ prog.address = hist.n0
    /\ last = "usbFunctionWrite"

\* C1 as stated: for every page size P >= 2, a last-block stream of P-1
\* words, 2*(P-1) bytes, gets exactly one flushPage call besides the ones
\* the page counter triggers, made before completion is reported.
C1_AsStated ==
    \A p \in 2 .. MaxPage :
        FlashStream(p, 2 * (p - 1)) /\ LastBlock =>
            /\ prog.state = "WRITEFLASH" => hist.fflush = 0
            /\ StreamComplete => hist.fflush = 1

\* C1 amended: the page size counts bytes.  For every page size P >= 3, a
\* stream of 2*(P-1) bytes whose command carries the first-block and the
\* last-block flag gets exactly one flushPage call for the pending partial
\* page besides the one call the page counter triggers; that call is made
\* by the data phase invocation that reports completion, and by no earlier
\* one.
C1_PartialPageFlush ==
    \A p \in 3 .. MaxPage :
        FlashStream(p, 2 * (p - 1)) /\ FirstBlock /\ LastBlock =>
            /\ prog.state = "WRITEFLASH" => hist.fflush = 0
            /\ ret = 1 => hist.fflush = 1
            /\ StreamComplete => hist.fflush = 1 /\ hist.cflush = 1

C1_Witness ==
    /\ FlashStream(3, 4) /\ FirstBlock /\ LastBlock
    /\ StreamComplete
    /\ ret = 1
    /\ hist.fflush = 1
    /\ hist.cflush = 1

\* the one word transfer of bytes 0x11 and 0x22: low half, then high half,
\* then the page-load strobe
OneWordLoad == <<Ev("dataLow", 17, 0), Ev("dataHigh", 34, 0), Ev("PAGEL", 17, 34)>>

\* the write-flash command of C2: page size 1, first and last block, 2 bytes
C2_Case ==
    /\ FlashStream(1, 2)
    /\ prog.blockflags = PROG_BLOCKFLAG_FIRST + PROG_BLOCKFLAG_LAST
    /\ StreamComplete

\* C2 as stated: with page size 1, flags first+last and length 2, writing
\* 0x11 at address 0 and 0x22 at address 1 gives exactly one page-load of a
\* word, low half before high half, and exactly one flushPage call.
C2_AsStated ==
    C2_Case => hist.loads = OneWordLoad /\ hist.cflush + hist.fflush = 1

\* C2 amended: with page size 1, flags first+last and length 2, writing 0x11
\* at address 0 and 0x22 at address 1 on a parallel device gives exactly one
\* page-load of a word, low half 0x11 driven before high half 0x22, and
\* exactly two flushPage calls, one after each byte, both triggered by the
\* page counter and none by the last-block flag.
C2_WordWriteOrdering ==
    C2_Case => /\ hist.loads = OneWordLoad
               /\ hist.cflush = 2
               /\ hist.fflush = 0

C2_Witness ==
    /\ C2_Case
    /\ ret = 1
    /\ IsParallel(dev_type)
    /\ hist.loads = OneWordLoad
    /\ hist.cflush = 2

\* C3 as stated: for every page size P >= 1, a stream of 2*P words, 4*P
\* bytes, with the first-block flag and without the last-block flag gives
\* exactly 2 page commits, both triggered by the page counter.
C3_AsStated ==
    \A p \in 1 .. MaxPage :
        FlashStream(p, 4 * p) /\ FirstBlock /\ ~LastBlock /\ StreamComplete =>
            hist.cflush = 2 /\ hist.fflush = 0

\* C3 amended: the page size counts bytes.  For every page size P >= 1, a
\* stream with the first-block flag and without the last-block flag gives
\* exactly 2 page commits when it is 2*P bytes long and exactly 4 when it is
\* 2*P words (4*P bytes) long, all of them triggered by the page counter and
\* none by the last-block flag.
C3_PageAutoFlush ==
    \A p \in 1 .. MaxPage :
        \A k \in {2, 4} :
            FlashStream(p, k * p) /\ FirstBlock /\ ~LastBlock /\ StreamComplete =>
                hist.cflush = k /\ hist.fflush = 0

C3_Witness ==
    /\ FlashStream(2, 4) /\ FirstBlock /\ ~LastBlock
    /\ StreamComplete
    /\ hist.cflush = 2
    /\ hist.fflush = 0


(***************************************************************************)
(* Extended address caching (SpecExt)                                      *)
(***************************************************************************)
\* the high-order segment of an address, and the byte of it the target takes
SegOf(a) == Shr(a, ExtShift)
SegByte(a) == U8(SegOf(a))

\* a read data phase has just read flash on a parallel device
ParallelFlashRead ==
    /\ last = "usbFunctionRead"
    /\ IsParallel(dev_type)
    /\ hist.reads # <<>>

RECURSIVE CacheBefore(_)
\* the cached segment when the i-th readFlash of the data phase starts: the
\* last byte loaded, or what the data phase found
CacheBefore(i) ==
    IF i = 1
    THEN hist.pre
    ELSE LET r == hist.reads[i - 1]
         IN  IF r.ext # <<>> THEN r.ext[Len(r.ext)] ELSE CacheBefore(i - 1)

\* the segment of the readFlash before the i-th one of the data phase
SegBefore(i) == IF i = 1 THEN hist.rprev ELSE SegOf(hist.reads[i - 1].a)

\* C6 as stated: on a parallel device a readFlash in the segment
\* (address >> 17) of the readFlash immediately before it loads no extended
\* address, and a readFlash whose segment differs from the cached one loads
\* it exactly once, before its data strobe, and the cache becomes that segment.
C6_AsStated ==
    ParallelFlashRead =>
        \A i \in DOMAIN hist.reads :
            LET r == hist.reads[i]
            IN  /\ SegOf(r.a) = SegBefore(i) => r.ext = <<>>
                /\ SegOf(r.a) # CacheBefore(i) =>
                      /\ r.ext = <<SegOf(r.a)>>
                      /\ ~r.late
                      /\ i = Len(hist.reads) => isp_hiaddr = SegOf(r.a)

\* C6 amended: on a parallel device a readFlash whose segment byte,
\* (address >> 17) & 0xFF, equals the cached byte (0 after connect, else the
\* byte loaded last) loads no extended address, and a readFlash whose segment
\* byte differs from the cached byte loads that byte exactly once, before its
\* data strobe, and the cache becomes that byte.
C6_ExtendedAddressCaching ==
    ParallelFlashRead =>
        /\ \A i \in DOMAIN hist.reads :
              LET r == hist.reads[i]
              IN  /\ ~r.late
                  /\ SegByte(r.a) = CacheBefore(i) => r.ext = <<>>
                  /\ SegByte(r.a) # CacheBefore(i) => r.ext = <<SegByte(r.a)>>
        /\ isp_hiaddr = SegByte(hist.reads[Len(hist.reads)].a)

\* a data phase that crosses into segment 1: the reads below the boundary
\* load nothing, the first one above it loads 1, the ones after it nothing
C6_Witness ==
    /\ ParallelFlashRead
    /\ hist.pre = 0
    /\ Len(hist.reads) = ChunkMax
    /\ hist.reads[4].ext = <<>>
    /\ hist.reads[5].a = Pow2(ExtShift)
    /\ hist.reads[5].ext = <<1>>
    /\ hist.reads[6].ext = <<>>
    /\ isp_hiaddr = 1

(***************************************************************************)
(* Read data phases (SpecRead)                                             *)
(***************************************************************************)
\* a read data phase has just run in a reading state
ReadPhaseDone == last = "usbFunctionRead" /\ hist.s0 \in ReadStates

\* the call the i-th pass of the read loop makes: ispReadEEPROM takes the
\* cursor as a uint16_t
ReadCallAt(i) ==
    IF hist.s0 = "READFLASH"
    THEN <<"ispReadFlash", hist.a0 + i - 1>>
    ELSE <<"ispReadEEPROM", U16(hist.a0 + i - 1)>>

\* C7: after a read-flash or read-eeprom command every read data phase of
\* chunk length len in 1..8 calls the matching read operation exactly len
\* times, with the consecutive cursor values, and advances the cursor by len;
\* the state stays the reading state after a chunk of 8 and becomes IDLE
\* after a shorter one.
C7_ReadChunking ==
    ReadPhaseDone =>
        /\ ret \in ChunkLens
        /\ Len(hist.calls) = ret
        /\ \A i \in 1 .. ret : hist.calls[i] = ReadCallAt(i)
        /\ prog.address = hist.a0 + ret
        /\ prog.state = IF ret = ChunkMax THEN hist.s0 ELSE "IDLE"

\* read-flash at 0 with length 10: after the chunks 8 and 2 the cursor is 10
\* and the state IDLE
C7_Witness ==
    /\ ReadPhaseDone
    /\ hist.s0 = "READFLASH"
    /\ hist.a0 = ChunkMax
    /\ ret = 2
    /\ hist.calls = <<<<"ispReadFlash", 8>>, <<"ispReadFlash", 9>>>>
    /\ prog.nbytes = 10
    /\ prog.address = 10
    /\ prog.state = "IDLE"

(***************************************************************************)
(* Commands and data phases in every state (Spec)                          *)
(***************************************************************************)
\* a read data phase starts in a state that is no reading state
ReadOutOfState ==
    /\ last' = "usbFunctionRead"
    /\ prog.state \in {"IDLE", "WRITEFLASH", "WRITEEEPROM", "TPI_WRITE"}

\* a write data phase starts in a state that is no writing state
WriteOutOfState ==
    /\ last' = "usbFunctionWrite"
    /\ prog.state \in {"IDLE", "READFLASH", "READEEPROM", "TPI_READ"}

\* C8: a read data phase in a state that is no reading state, and a write
\* data phase in a state that is no writing state, returns 0xff, drives no
\* transport line and makes no access-layer call, and leaves the state, the
\* cursor, the remaining count and the page counter as they were.
C8_OutOfStateDataPhase ==
    [][ReadOutOfState \/ WriteOutOfState =>
          /\ ret' = ErrSentinel
          /\ hist'.acc = {}
          /\ prog' = prog
          /\ prog_pagecounter' = prog_pagecounter
          /\ <<isp_hiaddr, low_byte>>' = <<isp_hiaddr, low_byte>>]_vars

\* a write data phase has arrived during a read-flash transfer
C8_Witness ==
    /\ last = "usbFunctionWrite"
    /\ ret = ErrSentinel
    /\ prog.state = "READFLASH"
    /\ hist.acc = {}

DataPhaseServed ==
    /\ prog.state \in ReadStates =>
          \A len \in ChunkLens : usbFunctionRead(Cur, len).ret = len
    /\ prog.state \in WriteStates =>
          \A len \in 1 .. 2, tmo \in BOOLEAN :
              usbFunctionWrite(Cur, Chunk(prog.address, len), tmo).ret \in {0, 1}
    /\ prog.state = "IDLE" =>
          \A len \in 1 .. 2 :
              /\ usbFunctionRead(Cur, len).ret = ErrSentinel
              /\ usbFunctionWrite(Cur, Chunk(prog.address, len), FALSE).ret = ErrSentinel

ImmediateCommands ==
    {"CONNECT", "DISCONNECT", "ENABLEPROG", "SETISPSCK", "SETLONGADDRESS",
     "GETCAPABILITIES"}

\* C10: connect, disconnect, enter-programming-mode, set-clock-speed,
\* set-long-address and get-capabilities, issued in any state, leave the
\* operation state as it was.
C10_ImmediateCommandsKeepState ==
    [][last' \in ImmediateCommands => prog'.state = prog.state]_vars

\* a connect in the middle of a read-eeprom transfer
C10_Witness ==
    /\ last = "CONNECT"
    /\ prog.state = "READEEPROM"

(***************************************************************************)
(* SpecFuse: avr_getFuse with every kind byte, on every device type.       *)
(* hist.arg is the kind the last call got, hist.sel what it drove.         *)
(***************************************************************************)
\* the kinds avr_getFuse knows: 0 HFuse, 1 LFuse, 2 EFuse, 3 LBits
KnownKinds == 4

\* the levels of BS1, BS2 and XA1 when OE goes low, for kind bt in 0 .. 3.
\* avr_loadComm has left BS1 low and XA1 high, and BS2 low on FullBus; on
\* ShortBus BS2 is never driven ("keep").
FuseLines(dt, bt) ==
    LET bs2 == IF dt = FullBus THEN "low" ELSE "keep"
    IN  IF bt = 0
        THEN [BS1 |-> "high", BS2 |-> IF dt = FullBus THEN "high" ELSE bs2, XA1 |-> "high"]
        ELSE IF bt = 1
        THEN [BS1 |-> "low", BS2 |-> bs2, XA1 |-> IF dt = FullBus THEN "high" ELSE "low"]
        ELSE IF bt = 2
        THEN [BS1 |-> "low", BS2 |-> IF dt = FullBus THEN "high" ELSE bs2, XA1 |-> "high"]
        ELSE [BS1 |-> "high", BS2 |-> bs2, XA1 |-> "low"]

\* the instruction bytes of the two frames that read kind bt in 0 .. 3
FuseFrames(bt) ==
    IF bt = 1 THEN <<104, 108>>
    ELSE IF bt = 0 THEN <<122, 126>>
    ELSE IF bt = 2 THEN <<106, 110>>
    ELSE <<120, 124>>

\* avr_getFuse(uchar bt); pin is the byte the target puts out
avr_getFuse(m, bt, pin) ==
    LET b == IF bt > 3 THEN bt % 3 ELSE bt
    IN  IF IsParallel(m.dev_type)
        THEN LET m1 == avr_loadComm(m, 4)
                 m2 == Emit(m1, Ev("lines", FuseLines(m.dev_type, b), 0))
             IN  [Emit(m2, Ev("OE", 0, 0)) EXCEPT !.ret = pin]
        ELSE LET m1 == avr_serialExchange(m, 76, 4)
                 m2 == avr_serialExchange(m1, FuseFrames(b)[1], 0)
             IN  [avr_serialExchange(m2, FuseFrames(b)[2], 0) EXCEPT !.ret = pin]

GetFuse ==
    \E bt \in 0 .. 255, pin \in {0, 255} :
        LET m == avr_getFuse(Cur, bt, pin)
        IN  Commit(m, "avr_getFuse", [hist EXCEPT !.arg = bt, !.sel = m.ops])

NextFuse ==
    \/ EnableProg
    \/ GetFuse

SpecFuse == Init /\ [][NextFuse]_vars

\* C12: for every kind k in 0..255 avr_getFuse(k) selects the control lines
\* or the instruction pair that avr_getFuse(k mod 4) selects.
C12_FuseKindModulo ==
    last = "avr_getFuse" =>
        hist.sel = avr_getFuse(Cur, hist.arg % KnownKinds, 0).ops

(***************************************************************************)
(* SpecAddr: streaming commands with header addresses below and above      *)
(* 0x8000, in legacy and in long-address mode, between data phases.        *)
(* hist.arg is the address in the header of the last streaming command,    *)
(* hist.la the address of the last set-long-address command.               *)
(***************************************************************************)
\* 16-bit addresses of a header (bytes[2..3])
HeaderAddrs == {0, 4, 32768}

StreamingCommands == {"READFLASH", "READEEPROM", "WRITEFLASH", "WRITEEEPROM"}

\* what usbFunctionSetup does with a streaming command of 10 bytes at a
SetupStreaming(m, cmd, a) ==
    IF cmd = "READFLASH" THEN SetupReadFlash(m, Lo(a), Hi(a), 10, 0)
    ELSE IF cmd = "READEEPROM" THEN SetupReadEEPROM(m, Lo(a), Hi(a), 10, 0)
    ELSE IF cmd = "WRITEFLASH" THEN SetupWriteFlash(m, Lo(a), Hi(a), 0, 0, 10, 0)
    ELSE SetupWriteEEPROM(m, Lo(a), Hi(a), 10, 0)

StreamingCmdAddr ==
    \E cmd \in StreamingCommands, a \in HeaderAddrs :
        Commit(SetupStreaming(Cur, cmd, a), cmd, [hist EXCEPT !.arg = a])

SetLongAddressAddr ==
    \E a \in LongAddrs :
        Commit(SetupSetLongAddress(Cur, Lo(a), Hi(a), Hi(a \div 256), Hi(a \div 65536)),
               "SETLONGADDRESS", [hist EXCEPT !.la = a])

DataReadAddr == DataReadLen({2, ChunkMax}, MaxSpan, "none")
DataWriteAddr == DataWriteLen({2, ChunkMax}, MaxSpan, "none")

NextAddr ==
    \/ Connect
    \/ SetLongAddressAddr
    \/ StreamingCmdAddr
    \/ DataReadAddr
    \/ DataWriteAddr

SpecAddr == Init /\ [][NextAddr]_vars

\* C13: every streaming command sets the cursor, in legacy mode to the
\* 16-bit address of its header, in long-address mode to the address of the
\* most recent set-long-address command, whatever the data phases since.
C13_StartAddress ==
    last \in StreamingCommands =>
        prog.address = IF prog.address_newmode = 0 THEN hist.arg ELSE hist.la

(***************************************************************************)
(* Completion of a write stream (SpecWrite)                                *)
(***************************************************************************)
\* a write data phase has just consumed bytes of the current write command,
\* which asked for at least one byte, and has not gone past its length; the
\* stream starts at address 0, so the cursor counts the bytes consumed
WriteInProgress ==
    /\ hist.cmd \in WriteStates
    /\ last = "usbFunctionWrite"
    /\ hist.acc # {}
    /\ hist.n0 >= 1
    /\ prog.address <= hist.n0

\* C14: for a write-flash or write-eeprom command of N >= 1 bytes whose data
\* arrives in chunks totalling N bytes, the remaining count goes down by one
\* per byte consumed; every data phase before the one that consumes the N-th
\* byte returns 0 and stays in the writing state, and the one that consumes
\* the N-th byte returns 1 and leaves the state IDLE.
C14_WriteCompletion ==
    WriteInProgress =>
        /\ prog.nbytes = hist.n0 - prog.address
        /\ IF prog.address < hist.n0
           THEN ret = 0 /\ prog.state = hist.cmd
           ELSE ret = 1 /\ prog.state = "IDLE"

\* the third of three bytes has been consumed by a data phase of its own
C14_Witness ==
    /\ WriteInProgress
    /\ hist.cmd = "WRITEFLASH"
    /\ hist.n0 = 3
    /\ prog.address = 3
    /\ prog.nbytes = 0
    /\ ret = 1
    /\ prog.state = "IDLE"

(***************************************************************************)
(* Bound of the page counter (SpecWrite)                                   *)
(***************************************************************************)
\* C15: in every state reachable by write-flash and write-eeprom commands
\* (any page size and block flags, with or without the first-block flag) and
\* their data phases, the page counter is at most the configured page size.
C15_PageCounterBound == prog.pagecounter <= prog.pagesize

(***************************************************************************)
(* The remaining count during a read stream (SpecCount)                    *)
(***************************************************************************)
\* a step that is a read data phase served in a reading state
ReadPhaseStep == prog.state \in ReadStates /\ last' = "usbFunctionRead"

\* C16 (as amended): a read data phase leaves the remaining count as the
\* command set it, whatever the number of bytes it produces; the transfer
\* ends, with the state IDLE, exactly at a data phase of fewer than 8 bytes,
\* and after a full chunk of 8 bytes the state is still the reading state.
C16_ReadCountUntouched ==
    [][ReadPhaseStep =>
          /\ prog'.nbytes = prog.nbytes
          /\ prog'.state = IF ret' < ChunkMax THEN "IDLE" ELSE prog.state]_vars

\* a read-flash of 8 bytes has produced its 8 bytes in one data phase: the
\* remaining count is still 8 and the state is still the reading state
C16_Witness ==
    /\ ReadPhaseDone
    /\ hist.s0 = "READFLASH"
    /\ hist.a0 = 0
    /\ ret = ChunkMax
    /\ prog.address = ChunkMax
    /\ prog.nbytes = ChunkMax
    /\ prog.state = "READFLASH"

\* C16 as stated: a read data phase that produces no more bytes than remain
\* takes one off the remaining count per byte, and the state is IDLE once
\* the count is zero
C16_AsStated ==
    [][(ReadPhaseStep /\ ret' <= prog.nbytes) =>
          /\ prog'.nbytes = prog.nbytes - ret'
          /\ (prog'.nbytes = 0 => prog'.state = "IDLE")]_vars

(***************************************************************************)
(* The page commit of writeFlash (SpecWrite)                               *)
(***************************************************************************)
\* the page-write instruction 0x10 as avr_loadComm drives it
PageWriteCommit == Ev("loadComm", 16, 0)

\* C17: writeFlash issues the page-write instruction 0x10 and resets its page
\* counter only when that counter has reached the page size configured by
\* the current write-flash command; below that page size a write at an even
\* address only stores the pending low byte and increments the counter, with
\* no bus transaction.
C17_CommitAtPageSize ==
    prog.state = "WRITEFLASH" =>
        LET d == Image(prog.address)
            m == parallelWriteFlash(Cur, prog.address, d)
            committed == \E i \in DOMAIN m.ops : m.ops[i] = PageWriteCommit
        IN  /\ committed <=> prog_pagecounter >= prog.pagesize
            /\ (prog_pagecounter < prog.pagesize /\ prog.address % 2 = 0) =>
                   /\ m.ops = <<>>
                   /\ m.low_byte = d
                   /\ m.prog_pagecounter = prog_pagecounter + 1

(***************************************************************************)
(* The pending low byte of a flash word (SpecLow)                          *)
(***************************************************************************)
AccessCalls == {"ispWriteFlash", "ispFlushPage", "ispWriteEEPROM"}

\* the page-write instruction writeFlash may issue before anything else
IsCommit(e) == \/ e.op = "loadComm" /\ e.a = 16
               \/ e.op = "sx" /\ e.a = 76 /\ e.b = 16

\* what the call logged at position i of the last write data phase drove,
\* the page-write instruction apart
DrivenBy(i) ==
    LET rest == SubSeq(hist.sel, i + 1, Len(hist.sel))
        own == SubSeq(rest, 1, PrefixLen(rest, AccessCalls))
    IN  SelectSeq(own, LAMBDA e : ~IsCommit(e))

\* the data of the latest writeFlash at an even address before the call
\* logged at position i, -1 if there has been none
PendingAt(i) ==
    LET before == EvenWrites(SubSeq(hist.sel, 1, i - 1))
    IN  IF before = <<>> THEN hist.even0 ELSE LastOf(before).b

\* what loads one word: the low address bits, the low byte, the high byte,
\* the latch
WordLoad(a, low, high) ==
    IF IsParallel(dev_type)
    THEN <<Ev("loadAdd", U8(Shr(a, 1)), 0), Ev("dataLow", low, 0),
           Ev("dataHigh", high, 0), Ev("PAGEL", low, high)>>
    ELSE <<Ev("sx", 12, U8(Shr(a, 1))), Ev("sx", 44, low), Ev("sx", 60, high),
           Ev("sx", 125, 0), Ev("sx", 124, 0)>>

OddWriteAt(i) == hist.sel[i].op = "ispWriteFlash" /\ hist.sel[i].a % 2 = 1

\* C18: every writeFlash at an odd address loads the low address bits of the
\* word, then drives the pending low byte, then the high byte it was given,
\* then latches the word, in that order; the low byte it drives is the data
\* of the most recent writeFlash at an even address, whatever that address
\* was and also when it belonged to an earlier command, and no command
\* clears the pending low byte.
C18_PendingLowByte ==
    /\ hist.even # -1 => low_byte = hist.even
    /\ last = "usbFunctionWrite" =>
           \A i \in DOMAIN hist.sel :
               OddWriteAt(i) /\ PendingAt(i) # -1 =>
                   DrivenBy(i) = WordLoad(hist.sel[i].a, PendingAt(i), hist.sel[i].b)

\* a data phase of one byte at address 3 on a serial device, right after a
\* new write-flash command: the low byte it drives is the byte an earlier
\* command wrote at address 0
C18_Witness ==
    /\ last = "usbFunctionWrite"
    /\ dev_type = SerialHV
    /\ hist.even0 = Image(0)
    /\ Len(hist.sel) >= 1
    /\ OddWriteAt(1)
    /\ hist.sel[1].a = 3
    /\ DrivenBy(1) = WordLoad(3, Image(0), Image(3))

(***************************************************************************)
(* Re-arming of the page counter over the header's range (SpecPage)        *)
(***************************************************************************)
\* C19: for every page size the write-flash header can encode (1..4095),
\* the page counter equals the page size after a command with the
\* first-block flag and is re-armed to exactly the page size after each
\* flushPage the counter triggers, so that these flushes occur exactly once
\* every page-size bytes.
C19_PageCounterRearm ==
    (hist.cmd = "WRITEFLASH" /\ FirstBlock /\ prog.pagesize \in 1 .. 4095) =>
        /\ last = "WRITEFLASH" => prog.pagecounter = prog.pagesize
        /\ (last = "usbFunctionWrite" /\ prog.address <= hist.n0) =>
               /\ hist.cflush = prog.address \div prog.pagesize
               /\ (prog.address > 0 /\ prog.address % prog.pagesize = 0) =>
                      prog.pagecounter = prog.pagesize

(***************************************************************************)
(* The frame of a serial exchange (SpecFrame)                              *)
(***************************************************************************)
FrameDone == last = "avr_serialExchange" /\ hist.frame.pc = "done"

\* the byte made of the 8 samples from position first on, the earliest as
\* most significant bit
SampledByte(sdo, first) ==
    sdo[first] * 128 + sdo[first + 1] * 64 + sdo[first + 2] * 32
        + sdo[first + 3] * 16 + sdo[first + 4] * 8 + sdo[first + 5] * 4
        + sdo[first + 6] * 2 + sdo[first + 7]

\* 11 pulses, each with one instruction bit and one data bit; the 8 bits of
\* both bytes most significant first at positions 2..9, 0 at positions 1, 10
\* and 11
FrameDriven ==
    /\ Len(hist.frame.sii) = FramePulses
    /\ Len(hist.frame.sdi) = FramePulses
    /\ \A k \in 1 .. 8 :
           /\ hist.frame.sii[k + 1] = Bit(hist.frame.instr, 8 - k)
           /\ hist.frame.sdi[k + 1] = Bit(hist.frame.data, 8 - k)
    /\ \A k \in {1, 10, 11} : hist.frame.sii[k] = 0 /\ hist.frame.sdi[k] = 0

\* C20 (as amended): every exchange makes exactly 11 clock pulses, each
\* driving one instruction bit and one data bit and sampling one response
\* bit; the 8 instruction bits and the 8 data bits go out most significant
\* first at the same positions 2..9 and positions 1, 10 and 11 are driven 0;
\* the result is the samples of the first 8 pulses, positions 1..8, the first
\* as most significant bit: it depends on the sample at position 1, where 0
\* is driven, and not on the samples at positions 9, 10 and 11.
C20_SerialFrame ==
    FrameDone => FrameDriven /\ ret = SampledByte(hist.frame.sdo, 1)

\* the target answers 1 at the first pulse only: the result is 0x80
C20_Witness ==
    /\ FrameDone
    /\ hist.frame.instr = 76
    /\ hist.frame.data = 170
    /\ hist.frame.sdo = [k \in 1 .. FramePulses |-> IF k = 1 THEN 1 ELSE 0]
    /\ hist.frame.sii = <<0, 0, 1, 0, 0, 1, 1, 0, 0, 0, 0>>
    /\ hist.frame.sdi = <<0, 1, 0, 1, 0, 1, 0, 1, 0, 0, 0>>
    /\ ret = 128

\* C20 as stated: the frame is as above and the result is 8 of the samples in
\* sampling order that owes nothing to the samples at the positions where 0
\* is driven, that is the samples at positions 2..9
C20_AsStated ==
    FrameDone => FrameDriven /\ ret = SampledByte(hist.frame.sdo, 2)

(***************************************************************************)
(* The rest of a chunk after completion (SpecWrite)                        *)
(***************************************************************************)
\* C21: within one write data phase, once the remaining count has reached
\* zero and the state is IDLE again, the bytes left in the chunk go to no
\* access-layer operation: a write-flash stream of at least one byte never
\* calls writeEEPROM, and its remaining count never wraps below zero.
C21_NoAccessAfterCompletion ==
    (last = "usbFunctionWrite" /\ hist.cmd = "WRITEFLASH" /\ hist.n0 >= 1) =>
        /\ "ispWriteEEPROM" \notin hist.acc
        /\ prog.nbytes <= hist.n0

(***************************************************************************)
(* The page counter across the blocks of a transfer (SpecBlocks)           *)
(***************************************************************************)
\* a data phase of a multi-block transfer has returned
BlockPhaseDone == last = "usbFunctionWrite" /\ hist.cmd = "WRITEFLASH"

\* the flushPage calls a data phase owes at the completion of its block: one
\* when the block has the last-block flag and ends inside a page
FinalFlushDue ==
    IF prog.state = "IDLE" /\ LastBlock /\ hist.total % prog.pagesize # 0
    THEN 1
    ELSE 0

\* C22 (as amended): in a multi-block flash write (first command with the
\* first-block flag, the following ones without it, the same page size P in
\* 1..255) the page counter carries over from one command to the next: the
\* page counter triggers flushPage exactly after every P-th byte counted
\* from the start of the transfer, however the bytes are split into blocks
\* and chunks; the only other flushPage calls are the one a block with the
\* last-block flag gets at its completion when it ends inside a page.
C22_PageCounterContinuity ==
    hist.cmd = "WRITEFLASH" =>
        /\ hist.cflush = hist.total \div prog.pagesize
        /\ hist.k > 1 \/ last = "usbFunctionWrite" =>
               prog.pagecounter = prog.pagesize - (hist.total % prog.pagesize)
        /\ BlockPhaseDone => hist.fin = FinalFlushDue

\* the second block of a transfer with page size 2 whose first block had one
\* byte: its first byte is the second of the transfer and triggered the flush
C22_Witness ==
    /\ BlockPhaseDone
    /\ hist.k = 2
    /\ ~FirstBlock
    /\ prog.pagesize = 2
    /\ hist.total = 2
    /\ prog.nbytes = hist.n0 - 1
    /\ hist.cflush = 1
    /\ hist.fflush = 0

\* C22 as stated: flushPage is called exactly after every P-th byte counted
\* from the start of the transfer
C22_AsStated ==
    hist.cmd = "WRITEFLASH" => hist.cflush + hist.fflush = hist.total \div prog.pagesize

(***************************************************************************)
(* Addressing of an EEPROM read (SpecEeprom)                               *)
(***************************************************************************)
\* addresses on both sides of the first two 256-byte boundaries, and the
\* last ones of the 16-bit range
EepromAddrs == (0 .. 15) \cup (250 .. 265) \cup {511, 512, 65280, 65535}

ReadEEPROMCall ==
    \E a \in EepromAddrs :
        LET m == ispReadEEPROM(Cur, a)
        IN  Commit(m, "ispReadEEPROM", [hist EXCEPT !.arg = a, !.sel = m.ops])

NextEeprom ==
    \/ EnableProg
    \/ ReadEEPROMCall

SpecEeprom == Init /\ [][NextEeprom]_vars

\* C23: for every 16-bit address, readEEPROM on a parallel device loads
\* (address >> 8) as the high address byte and (address & 0xFF) as the low
\* address byte, the pair the serial path sends, so that two different
\* addresses never load the same pair.
C23_EEPROMReadAddressing ==
    (last = "ispReadEEPROM" /\ IsParallel(dev_type)) =>
        SelectOps(hist.sel, {"loadAdd"})
            = <<Ev("loadAdd", Shr(hist.arg, 8), 1), Ev("loadAdd", hist.arg % 256, 0)>>

(***************************************************************************)
(* EEPROM access by device type (Spec)                                     *)
(***************************************************************************)
\* the calls of the EEPROM access layer, as logged
EEPROMCalls == {"ispReadEEPROM", "ispWriteEEPROM"}

\* a data phase has just made EEPROM access calls
EEPROMAccessed ==
    /\ last \in {"usbFunctionRead", "usbFunctionWrite"}
    /\ hist.acc \cap EEPROMCalls # {}

\* C11: on SerialHV readEEPROM and writeEEPROM are no-op successes that
\* issue no transport transaction, and on FullBus and ShortBus both perform
\* the access on the target.
C11_EEPROMByDeviceType ==
    EEPROMAccessed =>
        IF dev_type = SerialHV
        THEN hist.acc \subseteq EEPROMCalls
        ELSE hist.acc \ EEPROMCalls # {}

====
